---------------------------- MODULE Spec2Model ----------------------------
(***************************************************************************)
(* simpledb-rs: block store (FileManager, Page), write-ahead log           *)
(* (LogManager, LogIterator), buffer pool (Buffer, BufferManager), log     *)
(* records (logrecord.rs), RecoveryManager and Transaction.                *)
(*                                                                         *)
(* Every handler is a function from the state of the process to its next   *)
(* state.  The state of the process is a record s with the fields of the   *)
(* VARIABLES below; a Rust panic ends the process (s.alive = FALSE), what  *)
(* is on disk stays.  Pages are byte sequences; byte offset o of the Rust  *)
(* code is index o + 1 of the sequence.                                    *)
(***************************************************************************)
EXTENDS Integers, Sequences, FiniteSets, TLC

VARIABLES
    disk,              \* the database directory: file name -> bytes of the file
    open_file,         \* FileManager.open_file: keys of the open-file map
    log_page,          \* LogManager.log_page: the tail page
    block_id,          \* LogManager.block_id: the tail block
    latest_lsn,        \* LogManager.latest_lsn
    last_lsn,          \* LogManager.last_lsn
    buffer_pool,       \* BufferManager.buffer_pool: sequence of Buffer
    buff_n_available,  \* BufferManager.buff_n_available
    buffer_list,       \* per transaction: BufferList {buffers, pins}
    alive,             \* FALSE once a handler has panicked
    restarts,          \* number of process starts so far
    last               \* the handler that ran last, and what it did

vars == <<disk, open_file, log_page, block_id, latest_lsn, last_lsn,
          buffer_pool, buff_n_available, buffer_list, alive, restarts, last>>

---------------------------------------------------------------------------
(* Bounds of the model and inputs of construction.                         *)

BlockSize == 64        \* FileManager::new(db_directory, block_size)
PoolSize == 2          \* BufferManager::new(.., buff_n)
NumTxns == 2           \* transactions 1..NumTxns
NumBlocks == 2         \* blocks 0..NumBlocks-1 of the data file
MaxRestarts == 1       \* process starts after the first
MaxPins == 1           \* length of a transaction's BufferList.pins
MaxHeld == 3           \* pins handed out by the pool and not yet given back
MaxUnpins == 2         \* BufferManager::unpin calls on one buffer
NumRecs == 4           \* records in the log file the program is started on
MaxListPins == 2       \* length of BufferList.pins when a BufferList is driven directly
MaxFileBlocks == 4     \* a file of this many blocks or more is not appended to
MaxLsn == 2            \* the LSNs handed to Buffer::set_modified are 0..MaxLsn

Txns == 1..NumTxns
LogFile == "log.wal"
DataFile == "f"
DbDir == "db"
FileNames == {LogFile, DataFile}
Offsets == {0, 4}
Vals == {65, 66}

\* the bytes of a file name (UTF-8)
NameBytes(name) == IF name = DataFile THEN <<102>> ELSE <<108, 111, 103>>

BlockId_new(file_name, block_num) ==
    [file_name |-> file_name, block_num |-> block_num]

DataBlocks == {BlockId_new(DataFile, n) : n \in 0..(NumBlocks - 1)}

---------------------------------------------------------------------------
(* Option / panic results.                                                 *)

None == [tag |-> "None"]
Some(v) == [tag |-> "Some", val |-> v]
Panic == [tag |-> "Panic"]
Ok(v) == [tag |-> "Ok", val |-> v]

\* let v be x in F(x)
Let(v, F(_)) == F(v)

\* the next statement F of a handler runs if the process has not panicked
Then(s, F(_)) == IF s.alive THEN F(s) ELSE s

Min(a, b) == IF a < b THEN a ELSE b
Zeros(n) == [i \in 1..n |-> 0]

\* bytes[from..to) of the Rust code, 0-based, as a sequence
Slice(bytes, from, to) == SubSeq(bytes, from + 1, to)

\* bytes with bytes[at..at+Len(new)) overwritten by new
Overwrite(bytes, at, new) ==
    [i \in 1..Len(bytes) |->
        IF i > at /\ i <= at + Len(new) THEN new[i - at] ELSE bytes[i]]

\* i32::to_be_bytes
to_be_bytes(v) ==
    LET b4 == v % 256
        v1 == (v - b4) \div 256
        b3 == v1 % 256
        v2 == (v1 - b3) \div 256
        b2 == v2 % 256
        v3 == (v2 - b2) \div 256
        b1 == v3 % 256
    IN  <<b1, b2, b3, b4>>

\* i32::from_be_bytes
from_be_bytes(b) ==
    (IF b[1] >= 128 THEN b[1] - 256 ELSE b[1]) * 16777216
        + b[2] * 65536 + b[3] * 256 + b[4]

---------------------------------------------------------------------------
(* Page (filemanager.rs).  A page is [block_size, byte_buffer].            *)

Page_new(block_size, byte_buffer) ==
    [block_size |-> block_size, byte_buffer |-> byte_buffer]

\* PageBuilder::with_log_buffer(buffer).build(): block_size = buffer.len()
Page_with_log_buffer(buffer) == Page_new(Len(buffer), buffer)

\* PageBuilder::block_size(bs).with_buffer(size).build()
Page_with_buffer(bs, size) == Page_new(bs, Zeros(bs * size))

\* Page::get_int: the slice is byte_buffer[offset..4], whatever the offset;
\* it has 4 bytes only for offset 0, and try_into().unwrap() panics otherwise
Page_get_int(p, offset) ==
    IF offset + 4 > p.block_size THEN None
    ELSE IF offset = 0 /\ Len(p.byte_buffer) >= 4
         THEN Some(from_be_bytes(Slice(p.byte_buffer, 0, 4)))
         ELSE Panic

\* Page::set_int: byte_buffer[offset..offset+4] = val.to_be_bytes()
Page_set_int(p, offset, val) ==
    IF offset + 4 > Len(p.byte_buffer) THEN Panic
    ELSE Ok([p EXCEPT !.byte_buffer = Overwrite(@, offset, to_be_bytes(val))])

\* Page::get_bytes: byte_buffer.get(offset * block_size ..)
Page_get_bytes(p, offset) ==
    IF offset * p.block_size > Len(p.byte_buffer) THEN None
    ELSE Some(Slice(p.byte_buffer, offset * p.block_size, Len(p.byte_buffer)))

\* str::trim_end_matches('\0')
RECURSIVE TrimEnd(_)
TrimEnd(bytes) ==
    IF bytes # <<>> /\ bytes[Len(bytes)] = 0
    THEN TrimEnd(SubSeq(bytes, 1, Len(bytes) - 1))
    ELSE bytes

\* Page::get_string: the same slice, String::from_utf8(..).ok().unwrap()
\* (bytes below 128 are valid UTF-8; the model holds no others)
Page_get_string(p, offset) ==
    IF offset * p.block_size > Len(p.byte_buffer) THEN None
    ELSE LET bytes == Slice(p.byte_buffer, offset * p.block_size, Len(p.byte_buffer))
         IN  IF \E i \in 1..Len(bytes) : bytes[i] >= 128 THEN Panic
             ELSE Some(TrimEnd(bytes))

\* Page::set_bytes: the length at offset * block_size, the data one
\* block_size further
Page_set_bytes(p, offset, bytes) ==
    LET len_aligned_offset == offset * p.block_size
        data_aligned_offset == offset * p.block_size + Len(bytes)
    IN  IF Len(bytes) > p.block_size + offset THEN Panic
        ELSE LET r == Page_set_int(p, len_aligned_offset, Len(bytes))
             IN  IF r.tag = "Panic" THEN Panic
                 ELSE IF data_aligned_offset + p.block_size > Len(p.byte_buffer)
                      THEN Panic
                      ELSE Ok([r.val EXCEPT !.byte_buffer =
                                 Overwrite(@, len_aligned_offset + p.block_size, bytes)])

\* Page::set_string: the raw bytes at offset, no length prefix
Page_set_string(p, offset, val) ==
    IF offset + Len(val) > Len(p.byte_buffer) THEN Panic
    ELSE Ok([p EXCEPT !.byte_buffer = Overwrite(@, offset, val)])

\* Page::flush
Page_flush(p) == [p EXCEPT !.byte_buffer = Zeros(p.block_size)]

\* Page::max_len (called by logrecord.rs, not defined in filemanager.rs):
\* the size of a length-prefixed string
Page_max_len(str) == 4 + Len(str)

---------------------------------------------------------------------------
(* FileManager (filemanager.rs).  s.disk is the directory, s.open_file the *)
(* keys of the open-file map: open_file keys a file by its joined path,    *)
(* length looks it up by the bare file name.                               *)

Path_join(dir, file_name) == [dir |-> dir, file |-> file_name]
Path_bare(file_name) == [dir |-> "", file |-> file_name]

\* FileManager::open_file: OpenOptions .create(true), the key is the joined path
FileManager_open_file(s, file_name) ==
    [s EXCEPT !.open_file = @ \cup {Path_join(DbDir, file_name)}]

\* FileManager::read: seek to page.block_size * block_num, read what is there
FileManager_read(s, blk, page) ==
    LET file == s.disk[blk.file_name]
        pos == page.block_size * blk.block_num
        n == IF pos >= Len(file) THEN 0
             ELSE Min(Len(page.byte_buffer), Len(file) - pos)
    IN  [s |-> FileManager_open_file(s, blk.file_name),
         page |-> [page EXCEPT !.byte_buffer =
                      Overwrite(@, 0, Slice(file, pos, pos + n))]]

\* what File::write at position pos leaves in the file (a hole reads as zeros)
WriteAt(file, pos, bytes) ==
    LET padded == IF pos > Len(file) THEN file \o Zeros(pos - Len(file)) ELSE file
        grown == IF pos + Len(bytes) > Len(padded)
                 THEN padded \o Zeros(pos + Len(bytes) - Len(padded))
                 ELSE padded
    IN  Overwrite(grown, pos, bytes)

\* FileManager::write: seek to page.block_size * block_num, write the page
FileManager_write(s, blk, page) ==
    LET s1 == FileManager_open_file(s, blk.file_name)
    IN  [s1 EXCEPT !.disk[blk.file_name] =
            WriteAt(@, page.block_size * blk.block_num, page.byte_buffer)]

\* FileManager::append: block_number = len / block_size, then
\* seek(SeekFrom::End(block_size * block_number)) and write one zero block
FileManager_append(s, file_name) ==
    LET s1 == FileManager_open_file(s, file_name)
        file == s1.disk[file_name]
        block_number == Len(file) \div BlockSize
        pos == Len(file) + BlockSize * block_number
    IN  [s |-> [s1 EXCEPT !.disk[file_name] = WriteAt(file, pos, Zeros(BlockSize))],
         blid |-> BlockId_new(file_name, block_number)]

\* FileManager::length: open_file.get(file_name), the length in bytes
FileManager_length(s, file_name) ==
    IF Path_bare(file_name) \in s.open_file
    THEN Some(Len(s.disk[file_name]))
    ELSE None

---------------------------------------------------------------------------
(* Ghost: s.ev is the list of what the running handler did: "append" (a    *)
(* record handed to LogManager::append), "page_write" (Buffer::flush wrote *)
(* a page), "undo" (a record undone), "stop" (where the scan of            *)
(* do_rollback ended: at a Start record, or at the end of the iterator),   *)
(* "finished" (finished_txns when the scan of do_recover ended, and the    *)
(* record it ended at, if any),                                            *)
(* "log_write" (LogManager::flush_to_file wrote the tail page).            *)

Emit(s, e) == [s EXCEPT !.ev = Append(@, e)]
Die(s) == [s EXCEPT !.alive = FALSE]

---------------------------------------------------------------------------
(* LogManager and LogIterator (logmanager.rs).                             *)

\* LogManager::flush_to_file
LogManager_flush_to_file(s) ==
    Emit([FileManager_write(s, s.block_id, s.log_page) EXCEPT !.last_lsn = s.latest_lsn],
         [e |-> "log_write", blk |-> s.block_id])

\* LogManager::flush: the guard is latest_lsn >= last_lsn
LogManager_flush(s) ==
    IF s.latest_lsn >= s.last_lsn THEN LogManager_flush_to_file(s) ELSE s

\* LogManager::append_new_block; returns the state, not yet the new tail id
LogManager_append_new_block(s) ==
    Let(FileManager_append(s, LogFile), LAMBDA a :
    Let(Page_set_int(Page_flush(a.s.log_page), 0, BlockSize), LAMBDA p :
        IF p.tag = "Panic" THEN [s |-> Die(a.s), blid |-> a.blid]
        ELSE [s |-> FileManager_write([a.s EXCEPT !.log_page = p.val], a.blid, p.val),
              blid |-> a.blid]))

\* LogManager::append from "let recpos" on, in state s1 with the boundary
\* bnd.  boundary as usize - bytes_needed underflows when the record is
\* longer than the boundary: a panic in a debug build, and in a release
\* build a wrapped position that Page::set_bytes rejects with a panic.
LogManager_append_at(s1, rec, bnd) ==
    IF ~s1.alive \/ bnd.tag # "Some" \/ bnd.val < Len(rec) + 4
    THEN [s |-> Die(s1), lsn |-> 0]
    ELSE Let(bnd.val - (Len(rec) + 4), LAMBDA recpos :
         Let(Page_set_bytes(s1.log_page, recpos, rec), LAMBDA w :
         Let(IF w.tag = "Ok" THEN Page_set_int(w.val, 0, recpos) ELSE Panic, LAMBDA h :
             IF h.tag # "Ok" THEN [s |-> Die(s1), lsn |-> 0]
             ELSE [s |-> [s1 EXCEPT !.log_page = h.val,
                                    !.latest_lsn = s1.latest_lsn + 1],
                   lsn |-> s1.latest_lsn + 1])))

\* LogManager::append, the branch that starts a new block
LogManager_append_roll(s) ==
    Let(LogManager_append_new_block(LogManager_flush(s)), LAMBDA nb :
        [nb.s EXCEPT !.block_id = nb.blid])

\* LogManager::append: [s, lsn]
LogManager_append(s0, rec) ==
    Let(Emit(s0, [e |-> "append", rec |-> rec]), LAMBDA s :
    Let(Page_get_int(s.log_page, 0), LAMBDA b :
        IF b.tag # "Some" THEN [s |-> Die(s), lsn |-> 0]
        ELSE IF b.val < Len(rec) + 4 THEN [s |-> Die(s), lsn |-> 0]
        ELSE IF (b.val - (Len(rec) + 4)) < 4
             THEN Let(LogManager_append_roll(s), LAMBDA s1 :
                      LogManager_append_at(s1, rec, Page_get_int(s1.log_page, 0)))
             ELSE LogManager_append_at(s, rec, b)))

\* LogManagerBuilder::append_new_block (no Page::flush here)
LogManagerBuilder_append_new_block(s) ==
    Let(FileManager_append(s, LogFile), LAMBDA a :
    Let(Page_set_int(a.s.log_page, 0, BlockSize), LAMBDA p :
        IF p.tag = "Panic" THEN [s |-> Die(a.s), blid |-> a.blid]
        ELSE [s |-> FileManager_write([a.s EXCEPT !.log_page = p.val], a.blid, p.val),
              blid |-> a.blid]))

\* LogManagerBuilder::build, the block the log starts with: [s, blid]
LogManagerBuilder_tail(s, file_len) ==
    IF file_len.tag = "None" THEN LogManagerBuilder_append_new_block(s)
    ELSE IF file_len.val > 0
         THEN Let(BlockId_new(LogFile, file_len.val - 1), LAMBDA old :
              Let(FileManager_read(s, old, s.log_page), LAMBDA rd :
                  [s |-> [rd.s EXCEPT !.log_page = rd.page], blid |-> old]))
         ELSE LogManagerBuilder_append_new_block(s)

\* LogManagerBuilder::new + build: s.log_page becomes the tail page
LogManagerBuilder_build(s0) ==
    Let([s0 EXCEPT !.log_page = Page_with_log_buffer(Zeros(BlockSize))], LAMBDA s :
    Let(LogManagerBuilder_tail(s, FileManager_length(s, LogFile)), LAMBDA r :
        [r.s EXCEPT !.block_id = r.blid, !.latest_lsn = 0, !.last_lsn = 0]))

\* LogIterator::new + move_to_block: an iterator is
\* [log_page, block_id, current_offset]
LogIterator_new(s, blk) ==
    Let(FileManager_read(s, blk, Page_with_log_buffer(Zeros(BlockSize))), LAMBDA rd :
    Let(Page_get_int(rd.page, 0), LAMBDA boundary :
        IF boundary.tag # "Some" THEN [s |-> Die(rd.s), it |-> None]
        ELSE [s |-> rd.s,
              it |-> [log_page |-> rd.page, block_id |-> blk,
                      current_offset |-> boundary.val]]))

\* LogIterator::next: [item, it]
LogIterator_next(it) ==
    IF it.current_offset >= BlockSize \/ it.block_id.block_num > 0
    THEN [item |-> None, it |-> it]
    ELSE Let(Page_get_bytes(it.log_page, it.current_offset), LAMBDA bytes :
             IF bytes.tag = "None" THEN [item |-> None, it |-> it]
             ELSE [item |-> bytes,
                   it |-> [it EXCEPT !.current_offset = @ + 4 + Len(bytes.val)]])

\* LogManager::iterator (called by recoverymanager.rs, not defined in
\* logmanager.rs): an iterator that begins at the current tail block
LogManager_iterator(s) == LogIterator_new(s, s.block_id)

---------------------------------------------------------------------------
(* Buffer and BufferManager (buffermanager.rs).  A buffer is               *)
(* [block_id, contents, pins, txn, lsn]; block_id, txn, lsn are Options.   *)

\* a Buffer::new that starts the buffer on a default block instead of on none
Buffer_new_default ==
    [block_id |-> Some(BlockId_new("", 0)), contents |-> Page_with_buffer(BlockSize, 1),
     pins |-> 0, txn |-> None, lsn |-> None]

\* Buffer::new; the page is one block (with_buffer is called without a size)
Buffer_new ==
    [block_id |-> None, contents |-> Page_with_buffer(BlockSize, 1),
     pins |-> 0, txn |-> None, lsn |-> None]

\* Buffer::pinned
Buffer_pinned(buf) == buf.pins > 0

\* Buffer::set_modified
Buffer_set_modified(buf, txn, lsn) ==
    [buf EXCEPT !.txn = Some(txn), !.lsn = Some(lsn)]

\* Buffer::flush on buffer_pool[i]
Buffer_flush(s, i) ==
    LET buf == s.buffer_pool[i]
    IN  IF buf.txn.tag # "Some" THEN s
        ELSE Let(LogManager_flush(s), LAMBDA s1 :
                 IF buf.block_id.tag = "None" THEN s1
                 ELSE [Emit(FileManager_write(s1, buf.block_id.val, buf.contents),
                            [e |-> "page_write", buf |-> i, blk |-> buf.block_id.val,
                             lsn |-> buf.lsn, last_lsn |-> s1.last_lsn])
                          EXCEPT !.buffer_pool[i].txn =
                              IF buf.txn.val = 1 THEN None ELSE Some(buf.txn.val - 1)])

\* BufferManager::new
BufferManager_new(s) ==
    [s EXCEPT !.buffer_pool = [i \in 1..PoolSize |-> Buffer_new],
              !.buff_n_available = PoolSize]

\* BufferManager::flush_all_buffers, buffers i..PoolSize
RECURSIVE flush_all_from(_, _, _)
flush_all_from(s, txn_num, i) ==
    IF i > Len(s.buffer_pool) THEN s
    ELSE flush_all_from(IF s.buffer_pool[i].txn = Some(txn_num)
                        THEN Buffer_flush(s, i) ELSE s,
                        txn_num, i + 1)

BufferManager_flush_all_buffers(s, txn_num) == flush_all_from(s, txn_num, 1)

\* BufferManager::find_buffer: the index of the first buffer holding blk
BufferManager_find_buffer(s, blk) ==
    LET hits == {i \in 1..Len(s.buffer_pool) : s.buffer_pool[i].block_id = Some(blk)}
    IN  IF hits = {} THEN None
        ELSE Some(CHOOSE i \in hits : \A j \in hits : i <= j)

\* BufferManager::find_unpinned_buffer: the first buffer that is not pinned
BufferManager_find_unpinned_buffer(s) ==
    LET free == {i \in 1..Len(s.buffer_pool) : ~Buffer_pinned(s.buffer_pool[i])}
    IN  IF free = {} THEN None
        ELSE Some(CHOOSE i \in free : \A j \in free : i <= j)

\* BufferManager::try_pin: returns the buffer found; nothing is assigned,
\* read or counted
BufferManager_try_pin(s, blk) ==
    Let(BufferManager_find_buffer(s, blk), LAMBDA found :
        IF found.tag = "Some" THEN found
        ELSE BufferManager_find_unpinned_buffer(s))

\* BufferManager::pin: polls try_pin until it succeeds or MAX_TIME has
\* passed; nothing else runs meanwhile, so a first failure is the answer
BufferManager_pin(s, blk) == BufferManager_try_pin(s, blk)

\* BufferManager::unpin (with Buffer::unpin)
BufferManager_unpin(s, i) ==
    Let([s EXCEPT !.buffer_pool[i].pins = @ - 1], LAMBDA s1 :
        IF ~Buffer_pinned(s1.buffer_pool[i])
        THEN [s1 EXCEPT !.buff_n_available = @ + 1]
        ELSE s1)

\* BufferManager::available_buffers
BufferManager_available_buffers(s) == s.buff_n_available

---------------------------------------------------------------------------
(* BufferList (transaction.rs): [buffers: block -> buffer index, pins].    *)

EmptyMap == [x \in {} |-> 0]
BufferList_new == [buffers |-> EmptyMap, pins |-> <<>>]

MapPut(f, k, v) == [x \in (DOMAIN f) \cup {k} |-> IF x = k THEN v ELSE f[x]]
MapRemove(f, k) == [x \in (DOMAIN f) \ {k} |-> f[x]]
InSeq(q, x) == \E i \in 1..Len(q) : q[i] = x
RemoveFirst(q, x) ==
    IF ~InSeq(q, x) THEN q
    ELSE LET at == CHOOSE i \in 1..Len(q) :
                      q[i] = x /\ \A j \in 1..(i - 1) : q[j] # x
         IN  SubSeq(q, 1, at - 1) \o SubSeq(q, at + 1, Len(q))

\* BufferList::pin
BufferList_pin(s, t, blk) ==
    Let(BufferManager_pin(s, blk), LAMBDA b :
        IF b.tag = "Some"
        THEN [s EXCEPT !.buffer_list[t].buffers = MapPut(@, blk, b.val),
                       !.buffer_list[t].pins = Append(@, blk)]
        ELSE s)

\* BufferList::unpin
BufferList_unpin(s, t, blk) ==
    IF blk \in DOMAIN s.buffer_list[t].buffers
    THEN Let(BufferManager_unpin(s, s.buffer_list[t].buffers[blk]), LAMBDA s1 :
         Let(RemoveFirst(s1.buffer_list[t].pins, blk), LAMBDA pins :
             [s1 EXCEPT !.buffer_list[t].pins = pins,
                        !.buffer_list[t].buffers =
                            IF ~InSeq(pins, blk) THEN MapRemove(@, blk) ELSE @]))
    ELSE s

\* BufferList::unpin_all
BufferList_unpin_all(s, t) == [s EXCEPT !.buffer_list[t] = BufferList_new]

---------------------------------------------------------------------------
(* Log records (logrecord.rs).  A decoded record is                        *)
(* [op, tx_number, offset, block_id, value]; op is what operation() of its *)
(* Rust type returns.                                                      *)

CHECKPOINT == 0
START == 1
COMMIT == 2
ROLLBACK == 3
SETINT == 4
SETSTRING == 5

\* r is Ok(page) or Panic; apply a page operation to an Ok page
Bind(r, F(_)) == IF r.tag = "Ok" THEN F(r.val) ELSE Panic

\* the bytes SetIntLogRecord::write_to_log_record builds before it appends
SetIntLogRecord_bytes(tag, tx_number, blk, offset, value) ==
    LET tx_pos == 4
        filename_pos == tx_pos + 4
        block_pos == Page_max_len(NameBytes(blk.file_name))
        offset_pos == block_pos + 4
        value_pos == offset_pos + 4
        record_len == value_pos + 4
        p0 == Ok(Page_with_log_buffer(Zeros(record_len)))
        p1 == Bind(p0, LAMBDA p : Page_set_int(p, 0, tag))
        p2 == Bind(p1, LAMBDA p : Page_set_int(p, tx_pos, tx_number))
        p3 == Bind(p2, LAMBDA p : Page_set_string(p, filename_pos, NameBytes(blk.file_name)))
        p4 == Bind(p3, LAMBDA p : Page_set_int(p, block_pos, blk.block_num))
        p5 == Bind(p4, LAMBDA p : Page_set_int(p, offset_pos, offset))
    IN  Bind(p5, LAMBDA p : Page_set_int(p, value_pos, value))

\* SetIntLogRecord::write_to_log_record: [s, lsn]
SetIntLogRecord_write_to_log_record(s, tx_number, blk, offset, value) ==
    Let(SetIntLogRecord_bytes(SETINT, tx_number, blk, offset, value), LAMBDA page :
        IF page.tag # "Ok" THEN [s |-> Die(s), lsn |-> 0]
        ELSE LogManager_append(s, page.val.byte_buffer))

\* CommitLogRecord::write_to_log_record: the body of the SetInt one, and
\* the tag it writes is SETINT
CommitLogRecord_write_to_log_record(s, tx_number, blk, offset, value) ==
    Let(SetIntLogRecord_bytes(SETINT, tx_number, blk, offset, value), LAMBDA page :
        IF page.tag # "Ok" THEN [s |-> Die(s), lsn |-> 0]
        ELSE LogManager_append(s, page.val.byte_buffer))

\* Option::unwrap of a Page accessor's result: the value, or a panic
Unwrap(r) == IF r.tag = "Some" THEN Ok(r.val) ELSE Panic

\* SetIntLogRecord::new: Ok(record) or Panic
SetIntLogRecord_new(page) ==
    LET tx_pos == 4
        filename_pos == tx_pos + 4
    IN  Let(Unwrap(Page_get_int(page, tx_pos)), LAMBDA tx_number :
        Let(Unwrap(Page_get_string(page, filename_pos)), LAMBDA filename :
            IF tx_number.tag # "Ok" \/ filename.tag # "Ok" THEN Panic
            ELSE LET block_pos == Page_max_len(filename.val)
                     offset_pos == block_pos + 4
                     value_pos == offset_pos + 4
                 IN  Let(Unwrap(Page_get_int(page, block_pos)), LAMBDA block_num :
                     Let(Unwrap(Page_get_int(page, offset_pos)), LAMBDA offset :
                     Let(Unwrap(Page_get_int(page, value_pos)), LAMBDA value :
                         IF block_num.tag # "Ok" \/ offset.tag # "Ok" \/ value.tag # "Ok"
                         THEN Panic
                         ELSE Ok([op |-> SETINT, tx_number |-> tx_number.val,
                                  offset |-> offset.val,
                                  block_id |-> [file_name |-> filename.val,
                                                block_num |-> block_num.val],
                                  value |-> value.val]))))))

\* SetStringLogRecord::new: Ok(record) or Panic
SetStringLogRecord_new(page) ==
    LET tx_pos == 4
        filename_pos == tx_pos + 4
    IN  Let(Unwrap(Page_get_int(page, tx_pos)), LAMBDA tx_number :
        Let(Unwrap(Page_get_string(page, filename_pos)), LAMBDA filename :
            IF tx_number.tag # "Ok" \/ filename.tag # "Ok" THEN Panic
            ELSE LET block_pos == Page_max_len(filename.val)
                     offset_pos == block_pos + 4
                     value_pos == offset_pos + 4
                 IN  Let(Unwrap(Page_get_int(page, block_pos)), LAMBDA block_num :
                     Let(Unwrap(Page_get_int(page, offset_pos)), LAMBDA offset :
                     Let(Unwrap(Page_get_string(page, value_pos)), LAMBDA value :
                         IF block_num.tag # "Ok" \/ offset.tag # "Ok" \/ value.tag # "Ok"
                         THEN Panic
                         ELSE Ok([op |-> SETSTRING, tx_number |-> tx_number.val,
                                  offset |-> offset.val,
                                  block_id |-> [file_name |-> filename.val,
                                                block_num |-> block_num.val],
                                  value |-> value.val]))))))

\* LogRecord::create_log_record: Some(record), None (no such tag) or Panic
create_log_record(bytes) ==
    Let(Page_with_log_buffer(bytes), LAMBDA page :
    Let(Unwrap(Page_get_int(page, 0)), LAMBDA page_t :
        IF page_t.tag # "Ok" THEN Panic
        ELSE IF page_t.val \in {CHECKPOINT, START, COMMIT, ROLLBACK, SETINT}
             THEN Let(SetIntLogRecord_new(page), LAMBDA r :
                      IF r.tag = "Ok" THEN Some(r.val) ELSE Panic)
        ELSE IF page_t.val = SETSTRING
             THEN Let(SetStringLogRecord_new(page), LAMBDA r :
                      IF r.tag = "Ok" THEN Some(r.val) ELSE Panic)
        ELSE None))

---------------------------------------------------------------------------
(* RecoveryManager::set_int and the Transaction operations undo needs.     *)
(* The bodies of Transaction's methods are empty in transaction.rs; they   *)
(* are modelled from the specification (section 4.6) over BufferList.      *)

\* RecoveryManager::set_int on buffer_pool[i]: [s, lsn]
RecoveryManager_set_int(s, i, offset, new_val) ==
    LET buf == s.buffer_pool[i]
        old_value == Page_get_int(buf.contents, offset)
    IN  IF old_value.tag # "Some" THEN [s |-> Die(s), lsn |-> 0]
        ELSE IF buf.block_id.tag # "Some" THEN [s |-> Die(s), lsn |-> 0]
        ELSE IF buf.txn.tag # "Some" THEN [s |-> Die(s), lsn |-> 0]
        ELSE SetIntLogRecord_write_to_log_record(
                 s, buf.txn.val, buf.block_id.val, offset, old_value.val)

\* Transaction::pin
Transaction_pin(s, t, blk) == BufferList_pin(s, t, blk)

\* Transaction::unpin
Transaction_unpin(s, t, blk) == BufferList_unpin(s, t, blk)

\* the LSN handed to Buffer::set_modified when nothing was logged: below
\* the LSN of every record
NoRecordLsn == 0

\* Transaction::set_int: exclusive lock (ConcurrencyManager is empty), pin
\* if needed, log the pre-image if should_log, write, set_modified
Transaction_set_int(s, t, blk, offset, val, should_log) ==
    Let(IF blk \in DOMAIN s.buffer_list[t].buffers THEN s
        ELSE BufferList_pin(s, t, blk), LAMBDA s1 :
        IF blk \notin DOMAIN s1.buffer_list[t].buffers THEN s1
        ELSE Let(s1.buffer_list[t].buffers[blk], LAMBDA i :
             Let(IF should_log THEN RecoveryManager_set_int(s1, i, offset, val)
                 ELSE [s |-> s1, lsn |-> NoRecordLsn], LAMBDA lg :
                 IF ~lg.s.alive THEN lg.s
                 ELSE Let(Page_set_int(lg.s.buffer_pool[i].contents, offset, val), LAMBDA w :
                          IF w.tag # "Ok" THEN Die(lg.s)
                          ELSE [lg.s EXCEPT !.buffer_pool[i] =
                                   Buffer_set_modified([@ EXCEPT !.contents = w.val],
                                                       t, lg.lsn)]))))

\* Transaction::set_string with should_log = false, as undo calls it
Transaction_set_string(s, t, blk, offset, val) ==
    Let(IF blk \in DOMAIN s.buffer_list[t].buffers THEN s
        ELSE BufferList_pin(s, t, blk), LAMBDA s1 :
        IF blk \notin DOMAIN s1.buffer_list[t].buffers THEN s1
        ELSE Let(s1.buffer_list[t].buffers[blk], LAMBDA i :
             Let(Page_set_string(s1.buffer_pool[i].contents, offset, val), LAMBDA w :
                 IF w.tag # "Ok" THEN Die(s1)
                 ELSE [s1 EXCEPT !.buffer_pool[i] =
                          Buffer_set_modified([@ EXCEPT !.contents = w.val],
                                              t, NoRecordLsn)])))

\* SetIntLogRecord::undo / SetStringLogRecord::undo into transaction t
LogRecord_undo(s0, rec, t) ==
    Let(Transaction_pin(Emit(s0, [e |-> "undo", rec |-> rec]), t, rec.block_id), LAMBDA s1 :
    Let(IF rec.op = SETSTRING
        THEN Transaction_set_string(s1, t, rec.block_id, rec.offset, rec.value)
        ELSE Transaction_set_int(s1, t, rec.block_id, rec.offset, rec.value, FALSE),
        LAMBDA s2 : Then(s2, LAMBDA s3 : Transaction_unpin(s3, t, rec.block_id))))

---------------------------------------------------------------------------
(* The log file format of the specification (sections 4.3, 4.4 and 6):     *)
(* what a database directory left by an earlier run holds, and how to read *)
(* the records of a log file.  A log record is [kind, txn, blk, offset,    *)
(* old]; Commit, Rollback and Start carry the transaction id only.         *)

WalSet(txn, blk, offset, old) ==
    [kind |-> SETINT, txn |-> txn, blk |-> blk, offset |-> offset, old |-> old]
WalEnd(kind, txn) ==
    [kind |-> kind, txn |-> txn, blk |-> BlockId_new("", 0), offset |-> 0, old |-> 0]

\* the bytes of a record: the tag, then its fields, integers big-endian,
\* the file name length-prefixed
WalBytes(r) ==
    IF r.kind = CHECKPOINT THEN to_be_bytes(r.kind)
    ELSE IF r.kind \in {START, COMMIT, ROLLBACK}
         THEN to_be_bytes(r.kind) \o to_be_bytes(r.txn)
    ELSE to_be_bytes(r.kind) \o to_be_bytes(r.txn)
            \o to_be_bytes(Len(NameBytes(r.blk.file_name))) \o NameBytes(r.blk.file_name)
            \o to_be_bytes(r.blk.block_num) \o to_be_bytes(r.offset)
            \o to_be_bytes(r.old)

\* the records of recs (oldest first) packed from the end of a block
\* backward, each behind its 4-byte length
RECURSIVE WalPacked(_)
WalPacked(recs) ==
    IF recs = <<>> THEN <<>>
    ELSE WalPacked(Tail(recs)) \o to_be_bytes(Len(WalBytes(Head(recs))))
            \o WalBytes(Head(recs))

\* one block of a log file: the boundary, the unused middle, the records
WalBlock(recs) ==
    LET packed == WalPacked(recs)
        boundary == BlockSize - Len(packed)
    IN  to_be_bytes(boundary) \o Zeros(boundary - 4) \o packed

\* the record whose bytes are given
WalParse(bytes) ==
    LET kind == from_be_bytes(Slice(bytes, 0, 4))
    IN  IF kind = CHECKPOINT THEN WalEnd(kind, 0)
        ELSE IF kind \in {START, COMMIT, ROLLBACK}
             THEN WalEnd(kind, from_be_bytes(Slice(bytes, 4, 8)))
        ELSE LET n == from_be_bytes(Slice(bytes, 8, 12))
             IN  [kind |-> kind,
                  txn |-> from_be_bytes(Slice(bytes, 4, 8)),
                  blk |-> BlockId_new(IF Slice(bytes, 12, 12 + n) = NameBytes(DataFile)
                                      THEN DataFile ELSE LogFile,
                                      from_be_bytes(Slice(bytes, 12 + n, 16 + n))),
                  offset |-> from_be_bytes(Slice(bytes, 16 + n, 20 + n)),
                  old |-> from_be_bytes(Slice(bytes, 20 + n, 24 + n))]

\* the tag and the transaction id at the head of a record's bytes
WalKind(bytes) == IF Len(bytes) >= 4 THEN from_be_bytes(Slice(bytes, 0, 4)) ELSE -1
WalTxn(bytes) == IF Len(bytes) >= 8 THEN from_be_bytes(Slice(bytes, 4, 8)) ELSE -1

\* the records of one block from position pos on, most recent first
RECURSIVE WalBlockRecords(_, _)
WalBlockRecords(block, pos) ==
    IF pos + 4 > Len(block) THEN <<>>
    ELSE LET n == from_be_bytes(Slice(block, pos, pos + 4))
         IN  IF n < 4 \/ pos + 4 + n > Len(block) THEN <<>>
             ELSE <<WalParse(Slice(block, pos + 4, pos + 4 + n))>>
                     \o WalBlockRecords(block, pos + 4 + n)

\* the records of a log file, most recent first: blocks k, k-1, .. 0; a
\* block whose boundary is not in 4..BlockSize holds none
RECURSIVE WalFileRecords(_, _)
WalFileRecords(file, k) ==
    IF k < 0 THEN <<>>
    ELSE LET block == Slice(file, k * BlockSize, (k + 1) * BlockSize)
             boundary == from_be_bytes(Slice(block, 0, 4))
             here == IF boundary >= 4 /\ boundary <= BlockSize
                     THEN WalBlockRecords(block, boundary) ELSE <<>>
         IN  here \o WalFileRecords(file, k - 1)

\* the durable log: the records in the log file on disk, most recent first
DurableLog == WalFileRecords(disk[LogFile], (Len(disk[LogFile]) \div BlockSize) - 1)

\* a data file of NumBlocks blocks whose block 0 holds val at offset 0
DataImage(val) == to_be_bytes(val) \o Zeros(NumBlocks * BlockSize - 4)

Block0 == BlockId_new(DataFile, 0)

\* the directories the program may be started on: an empty one; one left by
\* a crash after transaction 1 started, wrote 65 over 0 at offset 0 of block
\* 0 and the page reached the disk; the same after transaction 1 committed
Images ==
    { [f \in FileNames |-> <<>>],
      [f \in FileNames |-> IF f = DataFile THEN DataImage(65)
                           ELSE WalBlock(<<WalEnd(START, 1), WalSet(1, Block0, 0, 0)>>)],
      [f \in FileNames |-> IF f = DataFile THEN DataImage(65)
                           ELSE WalBlock(<<WalEnd(START, 1), WalSet(1, Block0, 0, 0),
                                           WalEnd(COMMIT, 1)>>)] }

---------------------------------------------------------------------------
(* RecoveryManager (recoverymanager.rs) of transaction t.                  *)

\* the loop of do_rollback over the iterator it
RECURSIVE do_rollback_loop(_, _, _)
do_rollback_loop(s, t, it) ==
    Let(LogIterator_next(it), LAMBDA n :
        IF n.item.tag = "None" THEN Emit(s, [e |-> "stop", at |-> None])
        ELSE Let(create_log_record(n.item.val), LAMBDA rec :
                 IF rec.tag = "Panic" THEN Die(s)
                 ELSE IF rec.tag = "None" THEN do_rollback_loop(s, t, n.it)
                 ELSE IF rec.val.op = START
                      THEN Emit(s, [e |-> "stop", at |-> Some(rec.val)])
                 ELSE Then(LogRecord_undo(s, rec.val, t),
                           LAMBDA s1 : do_rollback_loop(s1, t, n.it))))

\* RecoveryManager::do_rollback
RecoveryManager_do_rollback(s, t) ==
    Let(LogManager_iterator(s), LAMBDA lit :
        Then(lit.s, LAMBDA s1 : do_rollback_loop(s1, t, lit.it)))

\* the loop of do_recover; finished_txns is a list of records
RECURSIVE do_recover_loop(_, _, _, _)
do_recover_loop(s, t, it, finished_txns) ==
    IF ~s.alive THEN s
    ELSE
    Let(LogIterator_next(it), LAMBDA n :
        IF n.item.tag = "None"
        THEN Emit(s, [e |-> "finished", recs |-> finished_txns, at |-> None])
        ELSE Let(create_log_record(n.item.val), LAMBDA rec :
                 IF rec.tag = "Panic" THEN Die(s)
                 ELSE IF rec.tag = "None"
                      THEN do_recover_loop(s, t, n.it, finished_txns)
                 ELSE IF rec.val.op = CHECKPOINT
                      THEN Emit(s, [e |-> "finished", recs |-> finished_txns,
                                    at |-> Some(rec.val)])
                 ELSE do_recover_loop(
                          IF rec.val.op # COMMIT /\ rec.val.op # ROLLBACK
                             /\ ~InSeq(finished_txns, rec.val)
                          THEN LogRecord_undo(s, rec.val, t) ELSE s,
                          t, n.it,
                          IF rec.val.op = COMMIT \/ rec.val.op = ROLLBACK
                          THEN Append(finished_txns, rec.val) ELSE finished_txns)))

\* a do_recover that undoes the newest Set record of the log file, whatever
\* is finished or checkpointed
RecoveryManager_do_recover_newest(s, t) ==
    Let(SelectSeq(WalFileRecords(s.disk[LogFile], (Len(s.disk[LogFile]) \div BlockSize) - 1),
                  LAMBDA r : r.kind = SETINT), LAMBDA sets :
        IF sets = <<>> THEN s
        ELSE LogRecord_undo(s, [op |-> SETINT, tx_number |-> sets[1].txn,
                                offset |-> sets[1].offset, block_id |-> sets[1].blk,
                                value |-> sets[1].old], t))

\* RecoveryManager::do_recover
RecoveryManager_do_recover(s, t) ==
    Let(LogManager_iterator(s), LAMBDA lit :
        Then(lit.s, LAMBDA s1 : do_recover_loop(s1, t, lit.it, <<>>)))

\* the three steps commit, rollback and recover end with: flush the
\* transaction's buffers, CommitLogRecord::write_to_log_record, flush the log.
\* The call names no block, offset or value: x stands for whatever it gets.
RecoveryManager_close(s, t, x) ==
    Then(CommitLogRecord_write_to_log_record(
             BufferManager_flush_all_buffers(s, t), t, x.blk, x.offset, x.value).s,
         LAMBDA s2 : LogManager_flush(s2))

\* RecoveryManager::commit
RecoveryManager_commit(s, t, x) == RecoveryManager_close(s, t, x)

\* RecoveryManager::rollback
RecoveryManager_rollback(s, t, x) ==
    Then(RecoveryManager_do_rollback(s, t), LAMBDA s1 : RecoveryManager_close(s1, t, x))

\* RecoveryManager::recover
RecoveryManager_recover(s, t, x) ==
    Then(RecoveryManager_do_recover(s, t), LAMBDA s1 : RecoveryManager_close(s1, t, x))

\* Transaction::commit: RecoveryManager.commit, release the locks, unpin all
Transaction_commit(s, t, x) ==
    Then(RecoveryManager_commit(s, t, x), LAMBDA s1 : BufferList_unpin_all(s1, t))

\* Transaction::rollback
Transaction_rollback(s, t, x) ==
    Then(RecoveryManager_rollback(s, t, x), LAMBDA s1 : BufferList_unpin_all(s1, t))

\* Transaction::recover
Transaction_recover(s, t, x) == RecoveryManager_recover(s, t, x)

---------------------------------------------------------------------------
(* The state machine.                                                      *)

\* the state of the process as a record (s.ev: what the handler did)
Cur ==
    [disk |-> disk, open_file |-> open_file, log_page |-> log_page,
     block_id |-> block_id, latest_lsn |-> latest_lsn, last_lsn |-> last_lsn,
     buffer_pool |-> buffer_pool, buff_n_available |-> buff_n_available,
     buffer_list |-> buffer_list, alive |-> alive, ev |-> <<>>]

\* the buffers whose last-modifying transaction is t
DirtyOf(s, t) ==
    {i \in 1..Len(s.buffer_pool) : s.buffer_pool[i].txn = Some(t)}

\* the next state is s, reached by handler op of transaction t; last.dirty
\* is what t had modified before, last.prev the handler that ran before
\* (process starts apart)
Becomes(s, op, t) ==
    /\ disk' = s.disk
    /\ open_file' = s.open_file
    /\ log_page' = s.log_page
    /\ block_id' = s.block_id
    /\ latest_lsn' = s.latest_lsn
    /\ last_lsn' = s.last_lsn
    /\ buffer_pool' = s.buffer_pool
    /\ buff_n_available' = s.buff_n_available
    /\ buffer_list' = s.buffer_list
    /\ alive' = s.alive
    /\ last' = [op |-> op, txn |-> t, ev |-> s.ev, dirty |-> DirtyOf(Cur, t),
                prev |-> IF last.op = "start" THEN last.prev ELSE last.op]

\* process start: FileManager::new, LogManager::builder(..).build(),
\* BufferManager::new, no transaction yet
Startup(d) ==
    BufferManager_new(LogManagerBuilder_build(
        [disk |-> d, open_file |-> {},
         log_page |-> Page_with_log_buffer(Zeros(BlockSize)),
         block_id |-> BlockId_new(LogFile, 0), latest_lsn |-> 0, last_lsn |-> 0,
         buffer_pool |-> <<>>, buff_n_available |-> 0,
         buffer_list |-> [t \in Txns |-> BufferList_new],
         alive |-> TRUE, ev |-> <<>>]))

\* what the call of CommitLogRecord::write_to_log_record may get for the
\* block, offset and value it is not given
RecArgs == {[blk |-> b, offset |-> 0, value |-> 0] : b \in DataBlocks}

\* the state after construction is s
Starts(s) ==
    /\ disk = s.disk
    /\ open_file = s.open_file
    /\ log_page = s.log_page
    /\ block_id = s.block_id
    /\ latest_lsn = s.latest_lsn
    /\ last_lsn = s.last_lsn
    /\ buffer_pool = s.buffer_pool
    /\ buff_n_available = s.buff_n_available
    /\ buffer_list = s.buffer_list
    /\ alive = s.alive
    /\ restarts = 0
    /\ last = [op |-> "start", txn |-> 0, ev |-> <<>>, dirty |-> {}, prev |-> "start"]

Init == \E d \in Images : Starts(Startup(d))

\* the process is started again on the directory as it is (after a panic,
\* a crash or a shutdown)
Restart ==
    /\ restarts < MaxRestarts
    /\ restarts' = restarts + 1
    /\ Becomes(Startup(disk), "start", 0)

TxPin(t, blk) ==
    /\ alive
    /\ Len(buffer_list[t].pins) < MaxPins
    /\ Becomes(Transaction_pin(Cur, t, blk), "pin", t)
    /\ UNCHANGED restarts

TxUnpin(t, blk) ==
    /\ alive
    /\ blk \in DOMAIN buffer_list[t].buffers
    /\ buffer_pool[buffer_list[t].buffers[blk]].pins > -MaxPins
    /\ Becomes(Transaction_unpin(Cur, t, blk), "unpin", t)
    /\ UNCHANGED restarts

TxSetInt(t, blk, offset, val, should_log) ==
    /\ alive
    /\ blk \in DOMAIN buffer_list[t].buffers \/ Len(buffer_list[t].pins) < MaxPins
    /\ Becomes(Transaction_set_int(Cur, t, blk, offset, val, should_log), "set_int", t)
    /\ UNCHANGED restarts

TxCommit(t) ==
    /\ alive
    /\ \E x \in RecArgs : Becomes(Transaction_commit(Cur, t, x), "commit", t)
    /\ UNCHANGED restarts

TxRollback(t) ==
    /\ alive
    /\ \E x \in RecArgs : Becomes(Transaction_rollback(Cur, t, x), "rollback", t)
    /\ UNCHANGED restarts

TxRecover(t) ==
    /\ alive
    /\ \E x \in RecArgs : Becomes(Transaction_recover(Cur, t, x), "recover", t)
    /\ UNCHANGED restarts

Next ==
    \/ Restart
    \/ \E t \in Txns, blk \in DataBlocks : TxPin(t, blk)
    \/ \E t \in Txns, blk \in DataBlocks : TxUnpin(t, blk)
    \/ \E t \in Txns, blk \in DataBlocks, offset \in Offsets, val \in Vals,
          should_log \in BOOLEAN : TxSetInt(t, blk, offset, val, should_log)
    \/ \E t \in Txns : TxCommit(t)
    \/ \E t \in Txns : TxRollback(t)
    \/ \E t \in Txns : TxRecover(t)

Spec == Init /\ [][Next]_vars

---------------------------------------------------------------------------
(* What the properties below read: the events of the handler that ran      *)
(* last, the pages of the pool, and the data file on disk.                  *)

\* the positions of the events of kind k in last.ev
Events(k) == {i \in 1..Len(last.ev) : last.ev[i].e = k}

\* the page of every buffer of the pool
PoolPages == [i \in 1..Len(buffer_pool) |-> buffer_pool[i].contents.byte_buffer]

\* the integer the data file on disk holds at offset of block blk
DiskInt(blk, offset) ==
    LET pos == blk.block_num * BlockSize + offset
    IN  IF pos + 4 <= Len(disk[blk.file_name])
        THEN Some(from_be_bytes(Slice(disk[blk.file_name], pos, pos + 4)))
        ELSE None

\* transaction txn has no Commit and no Rollback record in the durable log
Unfinished(txn) ==
    ~\E j \in 1..Len(DurableLog) :
        DurableLog[j].kind \in {COMMIT, ROLLBACK} /\ DurableLog[j].txn = txn

\* records i and j of the durable log are writes of one transaction to one
\* location
SameWrite(i, j) ==
    /\ DurableLog[i].kind = SETINT /\ DurableLog[j].kind = SETINT
    /\ DurableLog[i].txn = DurableLog[j].txn
    /\ DurableLog[i].blk = DurableLog[j].blk
    /\ DurableLog[i].offset = DurableLog[j].offset

\* record i is the first write of its transaction to its location
FirstWrite(i) ==
    /\ DurableLog[i].kind = SETINT
    /\ ~\E j \in (i + 1)..Len(DurableLog) : SameWrite(i, j)

\* record i was written by txn after its (latest) Start record
SinceStart(i, txn) ==
    /\ DurableLog[i].txn = txn
    /\ ~\E j \in 1..(i - 1) : DurableLog[j] = WalEnd(START, txn)

---------------------------------------------------------------------------
(* The claims.                                                             *)

\* C1 (WAL before data): whenever Buffer::flush writes a buffer's page to
\* the block store, the log has been flushed through the LSN of the
\* buffer's last set_modified: last_lsn >= buffer.lsn at the page write.
C1_WalBeforeData ==
    \A i \in Events("page_write") :
        last.ev[i].lsn.tag = "Some" => last.ev[i].last_lsn >= last.ev[i].lsn.val

\* C1, its case: a handler wrote a buffer's page to the block store.
C1_PageWritten == Events("page_write") # {}

\* C2 (commit durability): when commit of T is over, the record it appended
\* to the log is a Commit record of T, and that record is durable: it is
\* the most recent record of the log file on disk.
C2_CommitRecordDurable ==
    last.op = "commit" =>
        /\ \E i \in Events("append") :
               /\ WalKind(last.ev[i].rec) = COMMIT
               /\ WalTxn(last.ev[i].rec) = last.txn
        /\ DurableLog # <<>>
        /\ DurableLog[1] = WalEnd(COMMIT, last.txn)

\* C3 (commit flushes T's buffers first): when commit of T is over, every
\* buffer whose last-modifying transaction was T has had its page written
\* to the block store, and before the Commit record was appended.
C3_CommitFlushesBuffers ==
    last.op = "commit" =>
        \A b \in last.dirty :
            \E i \in Events("page_write") :
                /\ last.ev[i].buf = b
                /\ \A j \in Events("append") : i < j

\* C4 (recovery undoes uncommitted work): after recover, every location
\* written by a transaction with no Commit and no Rollback record in the
\* log holds the value it held before that transaction's first write to it.
C4_RecoverUndoesUncommitted ==
    last.op = "recover" =>
        \A i \in 1..Len(DurableLog) :
            (FirstWrite(i) /\ Unfinished(DurableLog[i].txn)) =>
                DiskInt(DurableLog[i].blk, DurableLog[i].offset) = Some(DurableLog[i].old)

\* C5 (recovery preserves committed work): recover undoes no Set record of
\* a transaction whose Commit record is in the log: the scan meets the
\* Commit record first and has the transaction in its finished set.
C5_RecoverKeepsCommitted ==
    last.op = "recover" =>
        \A i \in 1..Len(DurableLog) :
            (/\ DurableLog[i].kind = SETINT
             /\ \E j \in 1..(i - 1) : DurableLog[j] = WalEnd(COMMIT, DurableLog[i].txn)) =>
                /\ \A u \in Events("undo") :
                       last.ev[u].rec.tx_number # DurableLog[i].txn
                /\ \E f \in Events("finished") :
                       \E m \in 1..Len(last.ev[f].recs) :
                           last.ev[f].recs[m].tx_number = DurableLog[i].txn

C7_RollbackRestores ==
    last.op = "rollback" =>
        \A i \in 1..Len(DurableLog) :
            (/\ DurableLog[i].kind = SETINT
             /\ Unfinished(last.txn)
             /\ SinceStart(i, last.txn)
             /\ ~\E j \in (i + 1)..Len(DurableLog) :
                    SameWrite(i, j) /\ SinceStart(j, last.txn)) =>
                DiskInt(DurableLog[i].blk, DurableLog[i].offset) = Some(DurableLog[i].old)

\* C8 (rollback touches only its own transaction): rollback of T undoes
\* only records of T, its scan stops at T's Start record (when the log
\* holds one and T has not ended before), and the pages last modified by
\* another transaction are as they were.
C8_RollbackOwnOnly ==
    [][last'.op = "rollback" =>
          /\ \A u \in 1..Len(last'.ev) :
                 last'.ev[u].e = "undo" => last'.ev[u].rec.tx_number = last'.txn
          /\ (/\ \E j \in 1..Len(DurableLog) : DurableLog[j] = WalEnd(START, last'.txn)
              /\ Unfinished(last'.txn)) =>
                 \E i \in 1..Len(last'.ev) :
                     /\ last'.ev[i].e = "stop"
                     /\ last'.ev[i].at.tag = "Some"
                     /\ last'.ev[i].at.val.tx_number = last'.txn
          /\ \A b \in 1..Len(buffer_pool) :
                 (buffer_pool[b].txn.tag = "Some" /\ buffer_pool[b].txn.val # last'.txn) =>
                     PoolPages'[b] = PoolPages[b]]_vars

\* C9 (rollback's closing record): when rollback of T is over, the record
\* it appended after the scan is a Rollback record of T, and it is durable:
\* the most recent record of the log file on disk.
C9_RollbackRecordDurable ==
    last.op = "rollback" =>
        /\ \E i \in Events("append") :
               /\ WalKind(last.ev[i].rec) = ROLLBACK
               /\ WalTxn(last.ev[i].rec) = last.txn
        /\ DurableLog # <<>>
        /\ DurableLog[1] = WalEnd(ROLLBACK, last.txn)

\* C10 (recover ends with a checkpoint): when recover is over, every buffer
\* the undo pass touched has been flushed, and the most recent record of
\* the log is a Checkpoint record.
C10_RecoverCheckpoint ==
    last.op = "recover" =>
        /\ \A u \in Events("undo") :
               \E w \in Events("page_write") :
                   w > u /\ last.ev[w].blk = last.ev[u].rec.block_id
        /\ DurableLog # <<>>
        /\ DurableLog[1].kind = CHECKPOINT


---------------------------------------------------------------------------
(* The buffer pool on its own: clients call BufferManager::pin and         *)
(* BufferManager::unpin directly, one call at a time (BufferManager is     *)
(* reached through Rc<RefCell<..>>, which no second thread can hold).      *)
(* last.held lists the pins handed out and not yet given back, oldest      *)
(* first: [txn, blk, buf].                                                 *)

\* an empty database directory
EmptyDir == [f \in FileNames |-> <<>>]

\* the blocks the clients of the pool ask for: one more than the pool has
\* buffers
PoolBlocks == {BlockId_new(DataFile, n) : n \in 0..PoolSize}

\* the process is in state s
Holds(s) ==
    /\ disk = s.disk
    /\ open_file = s.open_file
    /\ log_page = s.log_page
    /\ block_id = s.block_id
    /\ latest_lsn = s.latest_lsn
    /\ last_lsn = s.last_lsn
    /\ buffer_pool = s.buffer_pool
    /\ buff_n_available = s.buff_n_available
    /\ buffer_list = s.buffer_list
    /\ alive = s.alive

\* the process goes to state s
Yields(s) ==
    /\ disk' = s.disk
    /\ open_file' = s.open_file
    /\ log_page' = s.log_page
    /\ block_id' = s.block_id
    /\ latest_lsn' = s.latest_lsn
    /\ last_lsn' = s.last_lsn
    /\ buffer_pool' = s.buffer_pool
    /\ buff_n_available' = s.buff_n_available
    /\ buffer_list' = s.buffer_list
    /\ alive' = s.alive

\* held without its k-th entry
Without(held, k) == SubSeq(held, 1, k - 1) \o SubSeq(held, k + 1, Len(held))

PoolInit ==
    /\ Holds(Startup(EmptyDir))
    /\ restarts = 0
    /\ last = [op |-> "start", txn |-> 0, blk |-> None, res |-> None, held |-> <<>>]

\* client t calls BufferManager::pin(blk) and keeps the buffer it gets
PoolPin(t, blk) ==
    /\ Len(last.held) < MaxHeld
    /\ Let(BufferManager_pin(Cur, blk), LAMBDA r :
           last' = [op |-> "pool_pin", txn |-> t, blk |-> Some(blk), res |-> r,
                    held |-> IF r.tag = "Some"
                             THEN Append(last.held, [txn |-> t, blk |-> blk, buf |-> r.val])
                             ELSE last.held])
    /\ Yields(Cur)
    /\ UNCHANGED restarts

\* the holder of the k-th pin calls BufferManager::unpin on its buffer
PoolUnpin(k) ==
    /\ k \in 1..Len(last.held)
    /\ buffer_pool[last.held[k].buf].pins > -MaxUnpins
    /\ Yields(BufferManager_unpin(Cur, last.held[k].buf))
    /\ last' = [op |-> "pool_unpin", txn |-> last.held[k].txn,
                blk |-> Some(last.held[k].blk), res |-> Some(last.held[k].buf),
                held |-> Without(last.held, k)]
    /\ UNCHANGED restarts

PoolNext ==
    \/ \E t \in Txns, blk \in PoolBlocks : PoolPin(t, blk)
    \/ \E k \in 1..MaxHeld : PoolUnpin(k)

SpecPool == PoolInit /\ [][PoolNext]_vars

\* the blocks of the pins handed out and not given back
HeldBlocks == {last.held[k].blk : k \in 1..Len(last.held)}

\* the buffers of the pool that are pinned, and those whose pin count is 0
PinnedSlots == {i \in 1..Len(buffer_pool) : Buffer_pinned(buffer_pool[i])}
FreeSlots == {i \in 1..Len(buffer_pool) : buffer_pool[i].pins = 0}

\* C11 (buffer-pool accounting): in every state reached by pin and unpin
\* calls on a pool of PoolSize buffers, at most PoolSize buffers have a pin
\* count above 0, and available_buffers() is the number of buffers whose
\* pin count is 0.
C11_PoolAccounting ==
    /\ Cardinality(PinnedSlots) <= PoolSize
    /\ BufferManager_available_buffers(Cur) = Cardinality(FreeSlots)

\* C12 (block uniqueness): in every state, whatever pin calls the clients
\* have interleaved, no two buffers of the pool hold the same BlockId.
C12_BlockUnique ==
    \A i, j \in 1..Len(buffer_pool) :
        (i # j /\ buffer_pool[i].block_id.tag = "Some") =>
            buffer_pool[i].block_id # buffer_pool[j].block_id

\* C12, its case: two clients hold a pin of the same block, each got by its
\* own pin call.
C12_SameBlockPinnedTwice ==
    \E a, b \in 1..Len(last.held) :
        /\ last.held[a].txn # last.held[b].txn
        /\ last.held[a].blk = last.held[b].blk

\* C13 (pool exhaustion): a pin call made while the pins handed out and not
\* given back are of PoolSize distinct blocks or more, for a block that is
\* not among them, returns no buffer.
C13_ExhaustedPinFails ==
    [][(/\ last'.op = "pool_pin"
        /\ Cardinality(HeldBlocks) >= PoolSize
        /\ last'.blk.val \notin HeldBlocks) => last'.res = None]_vars


---------------------------------------------------------------------------
(* The log on its own: a client calls LogManager::append, LogManager::flush *)
(* and LogIterator::new(..) / next directly, and the process is started on  *)
(* log files an earlier run left in the format of the specification         *)
(* (section 6), holding raw records as in logmanager.rs's tests.            *)

\* a record that fills half of what a block has left after its boundary, so
\* that a block is full after two records
PayloadLen == (BlockSize - 4) \div 2 - 4
Payload(k) == [i \in 1..PayloadLen |-> 96 + k]

\* raw records (oldest first) packed from the end of a block backward, each
\* behind its 4-byte length
RECURSIVE LogPacked(_)
LogPacked(recs) ==
    IF recs = <<>> THEN <<>>
    ELSE LogPacked(Tail(recs)) \o to_be_bytes(Len(Head(recs))) \o Head(recs)

\* one block of a log file: the boundary, the unused middle, the records
LogBlockImage(recs) ==
    LET packed == LogPacked(recs)
        boundary == BlockSize - Len(packed)
    IN  to_be_bytes(boundary) \o Zeros(boundary - 4) \o packed

\* the log file after records Payload(1) .. Payload(n) were appended and
\* flushed: two records to a block
RECURSIVE LogFileImage(_, _)
LogFileImage(from, n) ==
    IF from > n THEN <<>>
    ELSE LogBlockImage([i \in 1..Min(2, n - from + 1) |-> Payload(from + i - 1)])
             \o LogFileImage(from + 2, n)

\* the directories the log is started on
LogImages ==
    {[f \in FileNames |-> IF f = LogFile THEN LogFileImage(1, n) ELSE <<>>] : n \in 0..NumRecs}

\* the raw records of one block from position pos on, most recent first
RECURSIVE BlockPayloadsFrom(_, _)
BlockPayloadsFrom(block, pos) ==
    IF pos + 4 > Len(block) THEN <<>>
    ELSE LET n == from_be_bytes(Slice(block, pos, pos + 4))
         IN  IF n < 0 \/ pos + 4 + n > Len(block) THEN <<>>
             ELSE <<Slice(block, pos + 4, pos + 4 + n)>>
                     \o BlockPayloadsFrom(block, pos + 4 + n)

\* the raw records of block k of a file, most recent first; a block whose
\* boundary is not in 4..BlockSize holds none
BlockPayloads(file, k) ==
    LET block == Slice(file, k * BlockSize, (k + 1) * BlockSize)
        boundary == from_be_bytes(Slice(block, 0, 4))
    IN  IF Len(block) = BlockSize /\ boundary >= 4 /\ boundary <= BlockSize
        THEN BlockPayloadsFrom(block, boundary) ELSE <<>>

\* the raw records of blocks k, k-1, .. 0 of a file, most recent first
RECURSIVE FilePayloads(_, _)
FilePayloads(file, k) ==
    IF k < 0 THEN <<>>
    ELSE BlockPayloads(file, k) \o FilePayloads(file, k - 1)

\* the number of blocks of the log file on disk
LogBlocks == Len(disk[LogFile]) \div BlockSize

\* what a client hands to LogManager::append: a short record, a
\* half-block record, and one so long that append starts a new block
LogRecs == {<<102, 111, 111>>, Payload(5), [i \in 1..(BlockSize - 6) |-> 120]}

\* for item in iterator: what next() yields until it returns None
RECURSIVE LogIterator_collect(_)
LogIterator_collect(it) ==
    Let(LogIterator_next(it), LAMBDA n :
        IF n.item.tag = "None" THEN <<>>
        ELSE <<n.item.val>> \o LogIterator_collect(n.it))

\* LogIterator::new(fm, blk) and the iteration to its end
LogIterator_run(s, blk) ==
    Let(LogIterator_new(Emit(s, [e |-> "iterate", blk |-> blk]), blk), LAMBDA r :
        Then(r.s, LAMBDA s1 :
            Emit(s1, [e |-> "items", items |-> LogIterator_collect(r.it)])))

LogInit == \E d \in LogImages : Starts(Startup(d))

\* LogManager::append(rec); the event "lsn" is what the call returned
LogAppend(rec) ==
    /\ alive
    /\ Let(LogManager_append(Cur, rec), LAMBDA r :
           Becomes(IF r.s.alive THEN Emit(r.s, [e |-> "lsn", rec |-> rec, val |-> r.lsn])
                   ELSE r.s, "log_append", 0))
    /\ UNCHANGED restarts

\* LogManager::flush
LogFlush ==
    /\ alive
    /\ Becomes(LogManager_flush(Cur), "log_flush", 0)
    /\ UNCHANGED restarts

\* LogIterator::new on block blk of the log file, iterated to its end
LogIterate(blk) ==
    /\ alive
    /\ blk.block_num < LogBlocks
    /\ Becomes(LogIterator_run(Cur, blk), "iterate", 0)
    /\ UNCHANGED restarts

LogNext ==
    \/ Restart
    \/ \E rec \in LogRecs : LogAppend(rec)
    \/ LogFlush
    \/ \E n \in 0..(2 * NumRecs) : LogIterate(BlockId_new(LogFile, n))

SpecLog == LogInit /\ [][LogNext]_vars

\* the block the last iteration began at, and what it yielded
IterBlock == last.ev[CHOOSE i \in Events("iterate") : TRUE].blk
IterItems == last.ev[CHOOSE i \in Events("items") : TRUE].items

\* C14 (iteration within one block): an iterator over block 0 of the log
\* file yields exactly the records that block holds on disk, most recently
\* appended first, byte for byte, and then reports the end.
C14_IterateOneBlock ==
    (last.op = "iterate" /\ IterBlock.block_num = 0) =>
        /\ Events("items") # {}
        /\ IterItems = BlockPayloads(disk[LogFile], 0)

\* C15 (iteration across blocks): an iterator started at a later block
\* yields that block's records, then those of every earlier block down to
\* block 0, each record once, most recently appended first.
C15_IterateAcrossBlocks ==
    (last.op = "iterate" /\ IterBlock.block_num > 0) =>
        /\ Events("items") # {}
        /\ IterItems = FilePayloads(disk[LogFile], IterBlock.block_num)

\* C16 (log reopen): a LogManager built over a log file that holds records
\* takes the file's last block as its tail, with that block's contents, and
\* appends no block: the file is as it was.
C16_ReopenKeepsTail ==
    [][(restarts' = restarts + 1 /\ FilePayloads(disk[LogFile], LogBlocks - 1) # <<>>) =>
          /\ disk'[LogFile] = disk[LogFile]
          /\ block_id' = BlockId_new(LogFile, LogBlocks - 1)
          /\ log_page'.byte_buffer
                 = Slice(disk[LogFile], (LogBlocks - 1) * BlockSize, LogBlocks * BlockSize)]_vars

\* C17 (LSN sequencing): a newly built LogManager has latest_lsn =
\* last_lsn = 0, and every append, rollover or not, increments latest_lsn
\* by exactly 1 and returns the new value.
C17_AppendIncrementsLsn ==
    [][/\ last'.op = "start" => (latest_lsn' = 0 /\ last_lsn' = 0)
       /\ last'.op = "log_append" =>
              /\ latest_lsn' = latest_lsn + 1
              /\ \E i \in 1..Len(last'.ev) :
                     last'.ev[i].e = "lsn" /\ last'.ev[i].val = latest_lsn']_vars

\* C18 (durability frontier): latest_lsn >= last_lsn in every state, and a
\* record that append gave an LSN is in a block of the log file on disk if
\* and only if that LSN is at most last_lsn.
C18_DurabilityFrontier ==
    /\ latest_lsn >= last_lsn
    /\ \A i \in Events("lsn") :
           InSeq(FilePayloads(disk[LogFile], LogBlocks - 1), last.ev[i].rec)
               <=> last.ev[i].val <= last_lsn

\* C18, its case: append has given a record an LSN.
C18_RecordHasLsn == Events("lsn") # {}


---------------------------------------------------------------------------
(* The log-record codec on its own: a SetInt or SetString record is        *)
(* encoded as write_to_log_record builds its bytes, and the bytes are      *)
(* decoded by create_log_record.                                           *)

\* the bytes SetStringLogRecord::write_to_log_record builds before it appends
SetStringLogRecord_bytes(tx_number, blk, offset, value) ==
    LET tx_pos == 4
        filename_pos == tx_pos + 4
        block_pos == Page_max_len(NameBytes(blk.file_name))
        offset_pos == block_pos + 4
        value_pos == offset_pos + 4
        record_len == value_pos + Page_max_len(value)
        p0 == Ok(Page_with_log_buffer(Zeros(record_len)))
        p1 == Bind(p0, LAMBDA p : Page_set_int(p, 0, SETSTRING))
        p2 == Bind(p1, LAMBDA p : Page_set_int(p, tx_pos, tx_number))
        p3 == Bind(p2, LAMBDA p : Page_set_string(p, filename_pos, NameBytes(blk.file_name)))
        p4 == Bind(p3, LAMBDA p : Page_set_int(p, block_pos, blk.block_num))
        p5 == Bind(p4, LAMBDA p : Page_set_int(p, offset_pos, offset))
    IN  Bind(p5, LAMBDA p : Page_set_string(p, value_pos, value))

\* the old values a record may carry: an integer (SetInt), a string (SetString)
IntVals == {0} \cup Vals
StrVals == {<<>>, <<97>>, <<97, 98>>}

\* the records to encode: ival is the old value of a SetInt record, sval
\* that of a SetString record
RecInputs ==
    {[kind |-> SETINT, txn |-> t, blk |-> b, offset |-> o, ival |-> v, sval |-> <<>>] :
        t \in Txns, b \in DataBlocks, o \in Offsets, v \in IntVals}
    \cup
    {[kind |-> SETSTRING, txn |-> t, blk |-> b, offset |-> o, ival |-> 0, sval |-> v] :
        t \in Txns, b \in DataBlocks, o \in Offsets, v \in StrVals}

RecInit ==
    /\ Holds(Startup(EmptyDir))
    /\ restarts = 0
    /\ \E r \in RecInputs :
           last = [op |-> "record", rec |-> r, bytes |-> None, out |-> None]

\* the record is encoded: Ok(page) or Panic
RecEncode ==
    /\ last.op = "record"
    /\ last' = [last EXCEPT
                   !.op = "encoded",
                   !.bytes = IF last.rec.kind = SETINT
                             THEN SetIntLogRecord_bytes(SETINT, last.rec.txn, last.rec.blk,
                                                        last.rec.offset, last.rec.ival)
                             ELSE SetStringLogRecord_bytes(last.rec.txn, last.rec.blk,
                                                           last.rec.offset, last.rec.sval)]
    /\ Yields(Cur)
    /\ UNCHANGED restarts

\* the bytes are decoded: Some(record), None or Panic
RecDecode ==
    /\ last.op = "encoded"
    /\ last.bytes.tag = "Ok"
    /\ last' = [last EXCEPT !.op = "decoded",
                            !.out = create_log_record(last.bytes.val.byte_buffer)]
    /\ Yields(Cur)
    /\ UNCHANGED restarts

RecNext == RecEncode \/ RecDecode

SpecRec == RecInit /\ [][RecNext]_vars

\* C19 (log-record round trip): decoding the bytes a SetInt or SetString
\* record was encoded to gives a record of the same kind with the same
\* transaction, block (file name and number), offset and old value.
C19_RecordRoundTrip ==
    last.op = "decoded" =>
        /\ last.out.tag = "Some"
        /\ last.out.val.op = last.rec.kind
        /\ last.out.val.tx_number = last.rec.txn
        /\ last.out.val.block_id.file_name = NameBytes(last.rec.blk.file_name)
        /\ last.out.val.block_id.block_num = last.rec.blk.block_num
        /\ last.out.val.offset = last.rec.offset
        /\ last.out.val.value =
               (IF last.rec.kind = SETINT THEN last.rec.ival ELSE last.rec.sval)


---------------------------------------------------------------------------
(* The end of a transaction (Spec).                                        *)

\* the pins transaction t holds on buffer i according to its BufferList
PinsHeld(t, i) ==
    Cardinality({k \in 1..Len(buffer_list[t].pins) :
                    buffer_list[t].buffers[buffer_list[t].pins[k]] = i})

---------------------------------------------------------------------------
(* The buffer list on its own: a transaction calls BufferList::pin and     *)
(* BufferList::unpin directly, over a pool of PoolSize buffers or of none  *)
(* (BufferManager::new(.., 0)).  last.res is what BufferManager::pin       *)
(* returned inside BufferList::pin, last.ret what BufferList::pin returned *)
(* to its caller.                                                          *)

\* BufferManager::new with buff_n buffers
BufferManager_with(s, buff_n) ==
    [s EXCEPT !.buffer_pool = [i \in 1..buff_n |-> Buffer_new],
              !.buff_n_available = buff_n]

\* the value of a function that returns nothing: ()
Unit == [tag |-> "Unit"]

ListInit ==
    /\ \E buff_n \in {0, PoolSize} : Holds(BufferManager_with(Startup(EmptyDir), buff_n))
    /\ restarts = 0
    /\ last = [op |-> "start", txn |-> 0, blk |-> None, res |-> None, ret |-> Unit]

\* BufferList::pin(blk) of transaction t
ListPin(t, blk) ==
    /\ Len(buffer_list[t].pins) < MaxListPins
    /\ Yields(BufferList_pin(Cur, t, blk))
    /\ last' = [op |-> "list_pin", txn |-> t, blk |-> Some(blk),
                res |-> BufferManager_pin(Cur, blk), ret |-> Unit]
    /\ UNCHANGED restarts

\* BufferList::unpin(blk) of transaction t
ListUnpin(t, blk) ==
    /\ blk \in DOMAIN buffer_list[t].buffers
    /\ buffer_pool[buffer_list[t].buffers[blk]].pins > -MaxUnpins
    /\ Yields(BufferList_unpin(Cur, t, blk))
    /\ last' = [op |-> "list_unpin", txn |-> t, blk |-> Some(blk),
                res |-> Some(buffer_list[t].buffers[blk]), ret |-> Unit]
    /\ UNCHANGED restarts

ListNext ==
    \/ \E t \in Txns, blk \in DataBlocks : ListPin(t, blk)
    \/ \E t \in Txns, blk \in DataBlocks : ListUnpin(t, blk)

SpecList == ListInit /\ [][ListNext]_vars

\* the references transaction t holds to block blk: its entries in pins
Refs(t, blk) ==
    Cardinality({k \in 1..Len(buffer_list[t].pins) : buffer_list[t].pins[k] = blk})

\* C21 (a failed pin surfaces): when BufferManager::pin returns no buffer,
\* the pin of the transaction returns a failure to its caller, and the
\* block is not recorded as pinned.
C21_FailedPinReported ==
    (last.op = "list_pin" /\ last.res = None) =>
        /\ last.ret # Unit
        /\ last.blk.val \notin DOMAIN buffer_list[last.txn].buffers
        /\ ~InSeq(buffer_list[last.txn].pins, last.blk.val)


\* C30 (transaction pin reference counting): while a transaction holds
\* several references to a block, pinning it again and unpinning it leave
\* the pool untouched: only the unpin that drops the last reference
\* releases the buffer's pin in the pool.
C30_EarlyUnpinKeepsPoolPin ==
    [][\A t \in Txns, blk \in DataBlocks :
          (/\ last'.op \in {"list_pin", "list_unpin"}
           /\ last'.txn = t
           /\ last'.blk = Some(blk)
           /\ Refs(t, blk) >= (IF last'.op = "list_pin" THEN 1 ELSE 2))
          => (/\ buffer_pool' = buffer_pool
              /\ buff_n_available' = buff_n_available)]_vars


---------------------------------------------------------------------------
(* The lock table on its own: transactions call acquire_s_lock,            *)
(* acquire_x_lock and release of one ConcurrencyManager.  last.lock_table  *)
(* is ConcurrencyManager.lock_table; last.locks is the set of locks whose  *)
(* acquire has returned to a transaction that has not called release       *)
(* since.                                                                  *)

\* ConcurrencyManager::new
ConcurrencyManager_new == [lock_table |-> EmptyMap]

\* ConcurrencyManager::acquire_s_lock: the body is empty, it returns at once
ConcurrencyManager_acquire_s_lock(cm, blk) == cm

\* ConcurrencyManager::acquire_x_lock: the body is empty, it returns at once
ConcurrencyManager_acquire_x_lock(cm, blk) == cm

\* ConcurrencyManager::release: the body is empty
ConcurrencyManager_release(cm) == cm

LockInit ==
    /\ Holds(Startup(EmptyDir))
    /\ restarts = 0
    /\ last = [op |-> "start", txn |-> 0, blk |-> None,
               lock_table |-> ConcurrencyManager_new.lock_table, locks |-> {}]

\* transaction t calls acquire_s_lock(blk), which returns
LockShared(t, blk) ==
    /\ [txn |-> t, blk |-> blk, mode |-> "S"] \notin last.locks
    /\ last' = [op |-> "acquire_s_lock", txn |-> t, blk |-> Some(blk),
                lock_table |-> ConcurrencyManager_acquire_s_lock(
                                   [lock_table |-> last.lock_table], blk).lock_table,
                locks |-> last.locks \cup {[txn |-> t, blk |-> blk, mode |-> "S"]}]
    /\ Yields(Cur)
    /\ UNCHANGED restarts

\* transaction t calls acquire_x_lock(blk), which returns
LockExclusive(t, blk) ==
    /\ [txn |-> t, blk |-> blk, mode |-> "X"] \notin last.locks
    /\ last' = [op |-> "acquire_x_lock", txn |-> t, blk |-> Some(blk),
                lock_table |-> ConcurrencyManager_acquire_x_lock(
                                   [lock_table |-> last.lock_table], blk).lock_table,
                locks |-> last.locks \cup {[txn |-> t, blk |-> blk, mode |-> "X"]}]
    /\ Yields(Cur)
    /\ UNCHANGED restarts

\* transaction t ends and calls release
LockRelease(t) ==
    /\ \E h \in last.locks : h.txn = t
    /\ last' = [op |-> "release", txn |-> t, blk |-> None,
                lock_table |-> ConcurrencyManager_release(
                                   [lock_table |-> last.lock_table]).lock_table,
                locks |-> {h \in last.locks : h.txn # t}]
    /\ Yields(Cur)
    /\ UNCHANGED restarts

LockNext ==
    \/ \E t \in Txns, blk \in DataBlocks : LockShared(t, blk)
    \/ \E t \in Txns, blk \in DataBlocks : LockExclusive(t, blk)
    \/ \E t \in Txns : LockRelease(t)

SpecLock == LockInit /\ [][LockNext]_vars

\* C22 (lock compatibility): no block is held exclusively by one
\* transaction while another transaction holds a shared or an exclusive
\* lock on it.
C22_NoConflictingHolders ==
    \A h \in last.locks, g \in last.locks :
        (h.mode = "X" /\ g.txn # h.txn) => g.blk # h.blk


---------------------------------------------------------------------------
(* The block store on its own: a client calls FileManager::append and      *)
(* FileManager::write.  last.appends counts the appends made to each file  *)
(* since it was created (the log file was appended to once, by             *)
(* LogManagerBuilder::build), last.res is the BlockId the append returned. *)

FileInit ==
    /\ Holds(Startup(EmptyDir))
    /\ restarts = 0
    /\ last = [op |-> "start", file |-> LogFile, res |-> None,
               appends |-> [f \in FileNames |-> IF f = LogFile THEN 1 ELSE 0]]

\* FileManager::append(file_name)
FileAppend(file_name) ==
    /\ Len(disk[file_name]) \div BlockSize < MaxFileBlocks
    /\ LET r == FileManager_append(Cur, file_name)
       IN  /\ Yields(r.s)
           /\ last' = [op |-> "file_append", file |-> file_name, res |-> Some(r.blid),
                       appends |-> [last.appends EXCEPT ![file_name] = @ + 1]]
    /\ UNCHANGED restarts

\* FileManager::write(blk, page) of a page that starts with the integer v,
\* to a block the file has
FileWrite(blk, v) ==
    /\ blk.block_num < Len(disk[blk.file_name]) \div BlockSize
    /\ Yields(FileManager_write(Cur, blk,
                 Page_set_int(Page_with_buffer(BlockSize, 1), 0, v).val))
    /\ last' = [op |-> "file_write", file |-> blk.file_name, res |-> Some(blk),
                appends |-> last.appends]
    /\ UNCHANGED restarts

FileNext ==
    \/ \E file_name \in FileNames : FileAppend(file_name)
    \/ \E blk \in DataBlocks, v \in Vals : FileWrite(blk, v)

SpecFile == FileInit /\ [][FileNext]_vars

\* C23 (block-store append): the n-th append to a file returns block number
\* n - 1, and a file that was appended to n times is n blocks long.
C23_AppendAddsOneBlock ==
    /\ \A f \in FileNames : Len(disk[f]) = last.appends[f] * BlockSize
    /\ last.op = "file_append" =>
           last.res.val = BlockId_new(last.file, last.appends[last.file] - 1)


---------------------------------------------------------------------------
(* Claims about single calls of the pool and of the log.                   *)

\* C24 (effect of a successful pin): the buffer that pin(b) returns holds
\* block b afterwards, with a pin count one greater than before the call;
\* if no buffer held b before, its contents are those of block b in the
\* block store; no other buffer changes its block.
C24_PinAssignsBlock ==
    [][(last'.op = "pool_pin" /\ last'.res.tag = "Some") =>
          /\ buffer_pool'[last'.res.val].block_id = last'.blk
          /\ buffer_pool'[last'.res.val].pins = buffer_pool[last'.res.val].pins + 1
          /\ (\A j \in 1..PoolSize : buffer_pool[j].block_id # last'.blk) =>
                 buffer_pool'[last'.res.val].contents =
                     FileManager_read(Cur, last'.blk.val,
                                      Page_with_buffer(BlockSize, 1)).page
          /\ \A j \in 1..PoolSize :
                 j # last'.res.val => buffer_pool'[j].block_id = buffer_pool[j].block_id
      ]_vars


---------------------------------------------------------------------------
(* Buffers in the hands of a client: it pins a block and calls             *)
(* Buffer::set_modified or RecoveryManager::set_int on the buffer the pin  *)
(* returned, or it calls BufferManager::flush_all_buffers.  last.buf is    *)
(* that buffer, last.old the integer in its page at last.offset before the *)
(* call, last.marked the buffers whose last-modifying transaction was      *)
(* last.txn before the call, last.ev what the call did.                    *)

\* the integer in the bytes of page p at offset
IntAt(p, offset) == from_be_bytes(Slice(p.byte_buffer, offset, offset + 4))

BufInit ==
    /\ Holds(Startup(EmptyDir))
    /\ restarts = 0
    /\ last = [op |-> "start", txn |-> 0, blk |-> None, buf |-> 0, offset |-> 0,
               old |-> 0, val |-> 0, marked |-> {}, ev |-> <<>>]

\* pin(blk), then Buffer::set_modified(t, lsn) on the buffer
BufSetModified(t, blk, lsn) ==
    /\ alive
    /\ Let(BufferManager_pin(Cur, blk), LAMBDA r :
           /\ r.tag = "Some"
           /\ Yields([Cur EXCEPT !.buffer_pool[r.val] = Buffer_set_modified(@, t, lsn)])
           /\ last' = [op |-> "set_modified", txn |-> t, blk |-> Some(blk),
                       buf |-> r.val, offset |-> 0, old |-> 0, val |-> lsn,
                       marked |-> DirtyOf(Cur, t), ev |-> <<>>])
    /\ UNCHANGED restarts

\* BufferManager::flush_all_buffers(t)
BufFlushAll(t) ==
    /\ alive
    /\ Let(BufferManager_flush_all_buffers(Cur, t), LAMBDA s :
           /\ Yields(s)
           /\ last' = [op |-> "flush_all", txn |-> t, blk |-> None, buf |-> 0,
                       offset |-> 0, old |-> 0, val |-> 0,
                       marked |-> DirtyOf(Cur, t), ev |-> s.ev])
    /\ UNCHANGED restarts

\* pin(blk), then RecoveryManager::set_int(buffer, offset, new_val) of the
\* RecoveryManager of transaction t
BufSetInt(t, blk, offset, new_val) ==
    /\ alive
    /\ Let(BufferManager_pin(Cur, blk), LAMBDA r :
           /\ r.tag = "Some"
           /\ Let(RecoveryManager_set_int(Cur, r.val, offset, new_val), LAMBDA lg :
                  /\ Yields(lg.s)
                  /\ last' = [op |-> "rm_set_int", txn |-> t, blk |-> Some(blk),
                              buf |-> r.val, offset |-> offset,
                              old |-> IntAt(buffer_pool[r.val].contents, offset),
                              val |-> new_val,
                              marked |-> DirtyOf(Cur, t), ev |-> lg.s.ev]))
    /\ UNCHANGED restarts

BufNext ==
    \/ \E t \in Txns, blk \in PoolBlocks, lsn \in 0..MaxLsn : BufSetModified(t, blk, lsn)
    \/ \E t \in Txns : BufFlushAll(t)
    \/ \E t \in Txns, blk \in PoolBlocks, offset \in Offsets, new_val \in Vals :
           BufSetInt(t, blk, offset, new_val)

SpecBuf == BufInit /\ [][BufNext]_vars

\* C25 (flushing clears the dirty marker): after flush_all_buffers(T) no
\* buffer that T had modified has a last-modifying transaction recorded,
\* and no other buffer was written.
C25_FlushClearsMarker ==
    last.op = "flush_all" =>
        /\ \A i \in last.marked : buffer_pool[i].txn = None
        /\ \A k \in Events("page_write") : last.ev[k].buf \in last.marked

\* C29 (pre-image logging): RecoveryManager.set_int of transaction T on the
\* buffer pinned for block B appends exactly one record, the SetInt record
\* of T, B, the offset and the value the buffer held there before.
C29_PreImageLogged ==
    last.op = "rm_set_int" =>
        /\ Cardinality(Events("append")) = 1
        /\ \A k \in Events("append") :
               Ok([block_size |-> Len(last.ev[k].rec), byte_buffer |-> last.ev[k].rec])
                   = SetIntLogRecord_bytes(SETINT, last.txn, last.blk.val,
                                           last.offset, last.old)


---------------------------------------------------------------------------
(* Single calls of the log manager, under SpecLog.                         *)

\* the record handed to the LogManager::append that ran last
AppendedRec == last'.ev[CHOOSE i \in 1..Len(last'.ev) : last'.ev[i].e = "append"].rec

\* the tail page was written to the block store by the call that ran last
TailWritten == \E i \in 1..Len(last'.ev) : last'.ev[i].e = "log_write"

\* C26 (flush writes only unflushed records): when latest_lsn = last_lsn,
\* flush performs no block-store write and leaves last_lsn unchanged; when
\* latest_lsn > last_lsn it writes the tail page and sets last_lsn to
\* latest_lsn.
C26_FlushOnlyWhenUnflushed ==
    [][last'.op = "log_flush" =>
          /\ latest_lsn = last_lsn => (~TailWritten /\ last_lsn' = last_lsn)
          /\ latest_lsn > last_lsn => (TailWritten /\ last_lsn' = latest_lsn)
      ]_vars

\* C27 (log block rollover): when the record and its length do not fit
\* between the boundary header and the boundary, append flushes the tail
\* block, makes a new block with a larger block number the tail, and places
\* the record at the end of that block; the boundary header of the old
\* block on disk stays as it was.
C27_RolloverPlacesRecord ==
    [][(/\ last'.op = "log_append"
        /\ IntAt(log_page, 0) - (Len(AppendedRec) + 4) < 4) =>
          /\ alive'
          /\ TailWritten
          /\ block_id'.block_num > block_id.block_num
          /\ Slice(log_page'.byte_buffer, BlockSize - Len(AppendedRec), BlockSize)
                 = AppendedRec
          /\ Slice(disk'[LogFile], BlockSize * block_id.block_num,
                   BlockSize * block_id.block_num + 4)
                 = Slice(log_page.byte_buffer, 0, 4)
      ]_vars

\* C28 (tail-block boundary): an append that needs no new block puts the
\* record and its 4-byte length in the bytes just before the old boundary,
\* moves the boundary at offset 0 to the start of that record, keeps it
\* within [4, BlockSize], and leaves the earlier records as they were.
C28_RecordBeforeBoundary ==
    [][(/\ last'.op = "log_append"
        /\ IntAt(log_page, 0) - (Len(AppendedRec) + 4) >= 4) =>
          LET b == IntAt(log_page, 0)
              L == Len(AppendedRec)
          IN  /\ alive'
              /\ IntAt(log_page', 0) = b - (L + 4)
              /\ IntAt(log_page', 0) >= 4 /\ IntAt(log_page', 0) <= BlockSize
              /\ Slice(log_page'.byte_buffer, b - (L + 4), b - L) = to_be_bytes(L)
              /\ Slice(log_page'.byte_buffer, b - L, b) = AppendedRec
              /\ Slice(log_page'.byte_buffer, b, BlockSize)
                     = Slice(log_page.byte_buffer, b, BlockSize)
      ]_vars


---------------------------------------------------------------------------
(* Recovery over a log that holds a corrupt record or a Checkpoint record: *)
(* the transactions of Next, started on the directories of ScanImages.     *)

\* a tag that is none of the six of logrecord.rs
BadTag == 9

\* a record whose tag is not recognized
WalCorrupt == [WalEnd(BadTag, 0) EXCEPT !.blk = BlockId_new(DataFile, 0)]

\* directories left by an earlier run, data file with 65 at offset 0 of
\* block 0: transaction 1 wrote, then a corrupt record; transaction 1 wrote,
\* then a Checkpoint; a Checkpoint, then transaction 2 wrote
ScanImages ==
    { [f \in FileNames |-> IF f = DataFile THEN DataImage(65)
                           ELSE WalBlock(<<WalSet(1, Block0, 0, 0), WalCorrupt>>)],
      [f \in FileNames |-> IF f = DataFile THEN DataImage(65)
                           ELSE WalBlock(<<WalSet(1, Block0, 0, 0), WalEnd(CHECKPOINT, 0)>>)],
      [f \in FileNames |-> IF f = DataFile THEN DataImage(65)
                           ELSE WalBlock(<<WalEnd(CHECKPOINT, 0), WalSet(2, Block0, 0, 0)>>)] }

ScanInit == \E d \in ScanImages : Starts(Startup(d))

SpecScan == ScanInit /\ [][Next]_vars

\* the positions in DurableLog (most recent first) of the records whose tag
\* is not recognized, and of the Checkpoint records
CorruptAt == {i \in 1..Len(DurableLog) : DurableLog[i].kind \notin CHECKPOINT..SETSTRING}
CheckpointAt == {i \in 1..Len(DurableLog) : DurableLog[i].kind = CHECKPOINT}

\* the event at position u of last.ev is the undo of the record DurableLog[i]
UndoOf(u, i) ==
    /\ last.ev[u].e = "undo"
    /\ DurableLog[i].kind \in {SETINT, SETSTRING}
    /\ last.ev[u].rec.tx_number = DurableLog[i].txn
    /\ last.ev[u].rec.block_id = DurableLog[i].blk
    /\ last.ev[u].rec.offset = DurableLog[i].offset

\* C31 (a corrupt record ends the scan): when recover or rollback runs on a
\* log that holds a record with an unrecognized tag, no record older than
\* that record is undone, and the operation comes to its end: it does not
\* fail hard.
C31_CorruptEndsScan ==
    (last.op \in {"recover", "rollback"} /\ CorruptAt # {}) =>
        /\ alive
        /\ \A c \in CorruptAt, i \in 1..Len(DurableLog), u \in 1..Len(last.ev) :
               i > c => ~UndoOf(u, i)


\* C32 (the Checkpoint is the recovery horizon): when recover runs on a log
\* that holds a Checkpoint record, its scan ends at a Checkpoint record, and
\* no Set record older than the most recent Checkpoint is undone.
C32_CheckpointEndsScan ==
    (last.op = "recover" /\ CheckpointAt # {}) =>
        /\ \E f \in Events("finished") :
               /\ last.ev[f].at.tag = "Some"
               /\ last.ev[f].at.val.op = CHECKPOINT
        /\ \A c \in CheckpointAt, i \in 1..Len(DurableLog), u \in 1..Len(last.ev) :
               i > c => ~UndoOf(u, i)

\* C33 (operation tags): the record that commit of T hands to the log
\* carries the tag COMMIT in its first 4 bytes, and decoding it yields a
\* record whose operation is COMMIT and whose transaction is T.
C33_CommitRecordTag ==
    last.op = "commit" =>
        /\ Events("append") # {}
        /\ \A i \in Events("append") :
               /\ WalKind(last.ev[i].rec) = COMMIT
               /\ create_log_record(last.ev[i].rec).tag = "Some"
               /\ create_log_record(last.ev[i].rec).val.op = COMMIT
               /\ create_log_record(last.ev[i].rec).val.tx_number = last.txn

=============================================================================
